---- MODULE Spec2Model ----
(***************************************************************************)
(* Model of src/backend.py: the Dash callback update_visualizations, the   *)
(* helpers extract_text_from_pdf and read_database_table, the pandas       *)
(* concatenation of the parsed frames and calculate_metrics.               *)
(*                                                                         *)
(* Representation                                                          *)
(*   - a string is the sequence of its code points ("\n" is <<10>>);       *)
(*   - a DataFrame cell is a tagged pair <<tag, payload>>: Null (NaN/None),*)
(*     Num(n) or Str(s).  Python's bool is a subclass of int and pandas    *)
(*     sums, hashes and compares True/False as 1/0, so the booleans are    *)
(*     Num(1) and Num(0);                                                  *)
(*   - a DataFrame is [columns: sequence of names, rows: sequence of       *)
(*     functions from the column names to cells] (ignore_index=True makes  *)
(*     the row position the index);                                        *)
(*   - a percentage is an exact fraction [n, d]; round(x, 2) yields an     *)
(*     integer number of hundredths (7500 is 75.00).  The code rounds the  *)
(*     IEEE double its arithmetic produced: away from a tie (x.xx5) that   *)
(*     is the nearest hundredth of the exact value; at a tie the double is *)
(*     the tie itself when every intermediate quotient is dyadic (round    *)
(*     then takes the even neighbour) and otherwise lies a rounding error  *)
(*     below or above it, so either neighbour is a possible outcome.       *)
(*   - an upload's content is the sequence of the parts content.split(",") *)
(*     yields; a part is [b64, bytes]: how base64.b64decode takes it ("ok",*)
(*     "nonascii", "badpad") and the bytes it decodes to.                  *)
(***************************************************************************)
EXTENDS Integers, Sequences, FiniteSets

VARIABLES pc, contents, db_click, db_df, i, df, all_data, combined_df,
          metrics, error

vars == <<pc, contents, db_click, db_df, i, df, all_data, combined_df,
          metrics, error>>

(* ------------------------------ bounds --------------------------------- *)
MaxSources == 3
MaxPages == 2
MaxTables == 2
MaxRows == 2
MaxScoreRows == 3

(* ------------------------------ cells ---------------------------------- *)
Null == <<"null", <<>>>>
Num(n) == <<"num", <<n>>>>
Str(s) == <<"str", s>>

IsNull(v) == v[1] = "null"
IsStr(v) == v[1] = "str"
IsNum(v) == v[1] = "num"

Range(s) == {s[k] : k \in 1..Len(s)}

EmptyDF == [columns |-> <<>>, rows |-> <<>>]

(* DataFrame.empty: some axis has length 0 *)
IsEmpty(t) == Len(t.columns) = 0 \/ Len(t.rows) = 0

(* ------------------------- str.endswith -------------------------------- *)
EndsWith(s, suf) ==
    /\ Len(s) >= Len(suf)
    /\ SubSeq(s, Len(s) - Len(suf) + 1, Len(s)) = suf

DotCsv == <<46, 99, 115, 118>>
DotXlsx == <<46, 120, 108, 115, 120>>
DotPdf == <<46, 112, 100, 102>>

(* the if / elif / elif / else chain on the filename *)
Branch(filename) ==
    IF EndsWith(filename, DotCsv) THEN "csv"
    ELSE IF EndsWith(filename, DotXlsx) THEN "xlsx"
    ELSE IF EndsWith(filename, DotPdf) THEN "pdf"
    ELSE "continue"

(* ------------------------------ parsers -------------------------------- *)
(* The decoded bytes are abstracted by what they hold: fmt names the       *)
(* format the bytes are valid in ("junk": none), table the frame pandas    *)
(* reads out of csv/xlsx bytes, pages the page texts of a pdf.  A parser   *)
(* raises on bytes that are not valid in its own format.                   *)
ReadCsvRaises(decoded) == decoded.fmt # "csv"
read_csv(decoded) == decoded.table

ReadExcelRaises(decoded) == decoded.fmt # "xlsx"
read_excel(decoded) == decoded.table

FitzOpenRaises(decoded) == decoded.fmt # "pdf"

NL == 10

RECURSIVE PageLoop(_, _)
PageLoop(text, doc) ==
    IF doc = <<>> THEN text
    ELSE PageLoop(text \o Head(doc) \o <<NL>>, Tail(doc))

extract_text_from_pdf(decoded) == PageLoop(<<>>, decoded.pages)

PdfFrame(text) ==
    [columns |-> <<"Extracted Text">>,
     rows |-> <<[c \in {"Extracted Text"} |-> Str(text)]>>]

(* _, content_string = content.split(","): ValueError unless the split    *)
(* yields exactly two parts; base64.b64decode(content_string): ValueError  *)
(* when the str holds a non-ASCII character (it is encoded to ASCII        *)
(* first), binascii.Error on bad padding.  All of it runs before the       *)
(* suffix is tested.                                                       *)
DecodeError(content) ==
    IF Len(content) # 2 THEN "ValueError"
    ELSE IF content[2].b64 = "nonascii" THEN "ValueError"
    ELSE IF content[2].b64 = "badpad" THEN "binascii.Error"
    ELSE "none"

Decode(content) == content[2].bytes

(* read_database_table: the query result, or an empty frame on any error *)
read_database_table(db) == IF db.ok THEN db.table ELSE EmptyDF

(* --------------------------- pd.concat --------------------------------- *)
RECURSIVE AppendNew(_, _)
AppendNew(cols, new) ==
    IF new = <<>> THEN cols
    ELSE AppendNew(IF Head(new) \in Range(cols) THEN cols
                   ELSE Append(cols, Head(new)), Tail(new))

RECURSIVE UnionColumns(_, _)
UnionColumns(acc, tables) ==
    IF tables = <<>> THEN acc
    ELSE UnionColumns(AppendNew(acc, Head(tables).columns), Tail(tables))

(* absent columns filled with 0 instead of null *)
Reindex_FillZero(row, tcols, ucols) ==
    [c \in Range(ucols) |-> IF c \in Range(tcols) THEN row[c] ELSE Num(0)]

Reindex(row, tcols, ucols) ==
    [c \in Range(ucols) |-> IF c \in Range(tcols) THEN row[c] ELSE Null]

RECURSIVE StackRows(_, _)
StackRows(tables, ucols) ==
    IF tables = <<>> THEN <<>>
    ELSE LET t == Head(tables)
         IN [k \in 1..Len(t.rows) |-> Reindex(t.rows[k], t.columns, ucols)]
            \o StackRows(Tail(tables), ucols)

concat(tables) ==
    LET ucols == UnionColumns(<<>>, tables)
    IN [columns |-> ucols, rows |-> StackRows(tables, ucols)]

(* pd.concat(all_data, ignore_index=True) if all_data else pd.DataFrame() *)
Combine(tables) == IF tables # <<>> THEN concat(tables) ELSE EmptyDF

(* ------------------------- calculate_metrics --------------------------- *)
RECURSIVE SumSeq(_)
SumSeq(s) == IF s = <<>> THEN 0 ELSE Head(s) + SumSeq(Tail(s))

(* round-half-even of a / b, a >= 0, b > 0 *)
RoundHalfEven(a, b) ==
    LET f == a \div b
        r == a % b
    IN IF 2 * r < b THEN f
       ELSE IF 2 * r > b THEN f + 1
       ELSE IF f % 2 = 0 THEN f ELSE f + 1

RECURSIVE IsPow2(_)
IsPow2(n) == n = 1 \/ (n > 1 /\ n % 2 = 0 /\ IsPow2(n \div 2))

RECURSIVE GCD(_, _)
GCD(a, b) == IF b = 0 THEN a ELSE GCD(b, a % b)

(* n / d is a dyadic rational: the double division n / d is exact *)
Dyadic(n, d) == IsPow2(d \div GCD(n, d))

(* round(x, 2) of the double computed for the percentage x.n / x.d, in     *)
(* hundredths: the possible outcomes.  exact: the double equals x.n / x.d. *)
Round2(x, exact) ==
    LET a == 100 * x.n
        f == a \div x.d
    IN IF 2 * (a % x.d) = x.d /\ ~exact THEN {f, f + 1}
       ELSE {RoundHalfEven(a, x.d)}

(* isnull() in place of notnull() *)
NotNullCounts_IsNull(t) ==
    [k \in 1..Len(t.columns) |->
        Cardinality({r \in 1..Len(t.rows) : IsNull(t.rows[r][t.columns[k]])})]

(* df.notnull().mean(): per column, the count of non-null rows (over N) *)
NotNullCounts(t) ==
    [k \in 1..Len(t.columns) |->
        Cardinality({r \in 1..Len(t.rows) : ~IsNull(t.rows[r][t.columns[k]])})]

(* df.notnull().mean().mean() * 100 *)
Completeness(t) ==
    [n |-> 100 * SumSeq(NotNullCounts(t)), d |-> Len(t.rows) * Len(t.columns)]

(* every column mean and the mean of the means are exact doubles *)
CompletenessExact(t) ==
    /\ \A k \in 1..Len(t.columns) : Dyadic(NotNullCounts(t)[k], Len(t.rows))
    /\ Dyadic(SumSeq(NotNullCounts(t)), Len(t.rows) * Len(t.columns))

(* duplicated(keep=False): every row that has a twin is marked *)
duplicated_KeepFalse(t) ==
    [r \in 1..Len(t.rows) |->
        \E q \in 1..Len(t.rows) : q # r /\ t.rows[q] = t.rows[r]]

(* df.duplicated(): a row is marked when an earlier row equals it *)
duplicated(t) ==
    [r \in 1..Len(t.rows) |-> \E q \in 1..(r - 1) : t.rows[q] = t.rows[r]]

DuplicatedSum(t) == Cardinality({r \in 1..Len(t.rows) : duplicated(t)[r]})

(* 100 - (df.duplicated().sum() / total_records * 100) *)
Consistency(t) ==
    [n |-> 100 * Len(t.rows) - 100 * DuplicatedSum(t), d |-> Len(t.rows)]

ConsistencyExact(t) == Dyadic(DuplicatedSum(t), Len(t.rows))

(* the weighted sum taken over the values already rounded to 2 decimals *)
OverallIntegrity_Rounded(cp, cs) ==
    [n |-> 6 * RoundHalfEven(100 * cp.n, cp.d) + 4 * RoundHalfEven(100 * cs.n, cs.d),
     d |-> 1000]

(* 0.6 * completeness + 0.4 * consistency, on the unrounded values *)
OverallIntegrity(cp, cs) ==
    [n |-> 6 * cp.n * cs.d + 4 * cs.n * cp.d, d |-> 10 * cp.d * cs.d]

HasValid(t) == "valid" \in Range(t.columns)

(* df["valid"].sum(): nulls are skipped; a str cell makes the sum, or the  *)
(* subtraction from total_records that follows it, raise TypeError         *)
ValidSumRaises(t) ==
    HasValid(t) /\ \E r \in 1..Len(t.rows) : IsStr(t.rows[r]["valid"])

ValidSum(t) ==
    SumSeq([r \in 1..Len(t.rows) |->
              IF IsNum(t.rows[r]["valid"]) THEN t.rows[r]["valid"][2][1] ELSE 0])

(* int(0.9 * total_records) *)
NinetyPercent(total) == (9 * total) \div 10

ValidRecords(t) ==
    IF HasValid(t) THEN ValidSum(t) ELSE NinetyPercent(Len(t.rows))

(* the empty table scored as fully consistent (100 - 0) *)
ZeroMetrics_Consistent ==
    [completeness |-> 0, consistency |-> 10000, overall_integrity |-> 0,
     valid_records |-> 0, invalid_records |-> 0]

ZeroMetrics ==
    [completeness |-> 0, consistency |-> 0, overall_integrity |-> 0,
     valid_records |-> 0, invalid_records |-> 0]

CalculateMetricsRaises(t) == Len(t.rows) # 0 /\ ValidSumRaises(t)

(* the records calculate_metrics can return (one, unless a rounded value   *)
(* is an inexact tie); 0.6 and 0.4 are not doubles, so the weighted sum is *)
(* never taken as exact                                                    *)
calculate_metrics(t) ==
    LET total_records == Len(t.rows)
    IN IF total_records = 0 THEN {ZeroMetrics}
       ELSE LET completeness == Completeness(t)
                consistency == Consistency(t)
                overall_integrity == OverallIntegrity(completeness, consistency)
                valid_records == ValidRecords(t)
                invalid_records == total_records - valid_records
            IN {[completeness |-> cp,
                 consistency |-> cs,
                 overall_integrity |-> ov,
                 valid_records |-> valid_records,
                 invalid_records |-> invalid_records] :
                   cp \in Round2(completeness, CompletenessExact(t)),
                   cs \in Round2(consistency, ConsistencyExact(t)),
                   ov \in Round2(overall_integrity, FALSE)}

(* no Metrics record: the callback has not returned one *)
NoMetrics ==
    [completeness |-> -1, consistency |-> -1, overall_integrity |-> -1,
     valid_records |-> -1, invalid_records |-> -1]

(* --------------------------- input domains ----------------------------- *)
RECURSIVE SeqsUpTo(_, _)
SeqsUpTo(S, n) ==
    IF n = 0 THEN {<<>>}
    ELSE LET shorter == SeqsUpTo(S, n - 1)
         IN shorter \cup {Append(s, x) : s \in {q \in shorter : Len(q) = n - 1}, x \in S}

(* cells of the generated frames, per column; the "valid" column also      *)
(* holds 0 (False), a number above 1 and a string                          *)
PlainCells(c) ==
    IF c = "a" THEN {Null, Num(1)}
    ELSE IF c = "b" THEN {Num(2)}
    ELSE {Num(3)}
ScoreCells(c) ==
    IF c = "valid" THEN {Null, Num(0), Num(1), Num(2), Str(<<121>>)}
    ELSE {Null, Num(1)}

(* every frame with the given columns and at most n rows drawn from rowset *)
Frames(cols, rowset, n) ==
    {[columns |-> cols, rows |-> rs] : rs \in SeqsUpTo(rowset, n)}

PlainFrames(cols) ==
    Frames(cols, {f \in [Range(cols) -> {Null, Num(1), Num(2), Num(3)}] :
                     \A c \in Range(cols) : f[c] \in PlainCells(c)}, MaxRows)

ScoreFrames(cols) ==
    Frames(cols, {f \in [Range(cols) -> {Null, Num(0), Num(1), Num(2), Str(<<121>>)}] :
                     \A c \in Range(cols) : f[c] \in ScoreCells(c)}, MaxScoreRows)

(* the frame without columns has no rows; the others have 0 rows (header   *)
(* only) or more                                                           *)
UnifyTables ==
    {EmptyDF} \cup PlainFrames(<<"a">>) \cup PlainFrames(<<"b", "a">>)
              \cup PlainFrames(<<"c", "b">>)

(* a one-column frame of n rows, the first k non-null: 32 and 160 rows put *)
(* the percentages on a rounding tie (3.125 exactly, 14.375 inexactly)     *)
LongFrame(n, k) ==
    [columns |-> <<"a">>,
     rows |-> [r \in 1..n |-> [c \in {"a"} |-> IF r <= k THEN Num(1) ELSE Null]]]

ScoreTables ==
    {EmptyDF} \cup ScoreFrames(<<"a">>) \cup ScoreFrames(<<"valid">>)
              \cup ScoreFrames(<<"a", "valid">>) \cup ScoreFrames(<<"a", "b", "c">>)
              \cup {LongFrame(32, 1), LongFrame(32, 3), LongFrame(160, 23)}

(* uploaded files: a filename and the bytes the browser sent.  The names   *)
(* are one letter and an extension: .csv, .xlsx, .pdf, .txt and .CSV (the  *)
(* suffix test is case-sensitive); the bytes may not match the name.       *)
CsvBytes(t) == [fmt |-> "csv", table |-> t, pages |-> <<>>]
XlsxBytes(t) == [fmt |-> "xlsx", table |-> t, pages |-> <<>>]
PdfBytes(k) == [fmt |-> "pdf", table |-> EmptyDF,
                pages |-> [j \in 1..k |-> <<112, 48 + j>>]]
JunkBytes == [fmt |-> "junk", table |-> EmptyDF, pages |-> <<>>]

TableAB ==
    [columns |-> <<"a", "b">>,
     rows |-> << [c \in {"a", "b"} |-> IF c = "a" THEN Num(1) ELSE Num(2)],
                 [c \in {"a", "b"} |-> IF c = "a" THEN Num(1) ELSE Null] >>]
TableBC ==
    [columns |-> <<"b", "c">>,
     rows |-> << [c \in {"b", "c"} |-> IF c = "b" THEN Num(2) ELSE Str(<<120>>)] >>]
TableHeaderOnly == [columns |-> <<"c", "valid">>, rows |-> <<>>]
TableValidStr ==
    [columns |-> <<"valid">>, rows |-> << [c \in {"valid"} |-> Str(<<121>>)] >>]
TableDb ==
    [columns |-> <<"c", "a">>,
     rows |-> << [c \in {"c", "a"} |-> IF c = "a" THEN Num(1) ELSE Null] >>]

(* "data:<type>;base64,<payload>": the header and the encoded bytes *)
Header == [b64 |-> "ok", bytes |-> JunkBytes]
Body(bytes) == [b64 |-> "ok", bytes |-> bytes]

File(name, ext, bytes) == [filename |-> <<name>> \o ext, content |-> <<Header, Body(bytes)>>]

(* contents the decoding rejects: "data:" (an empty file read by the       *)
(* browser), a content with two commas, a payload with bad padding, a      *)
(* payload holding a non-ASCII character                                   *)
BadUploads ==
    { [filename |-> <<110, 46, 116, 120, 116>>, content |-> <<Header>>],
      [filename |-> <<97>> \o DotCsv, content |-> <<Header>>],
      [filename |-> <<110, 46, 116, 120, 116>>,
       content |-> <<Header, Body(CsvBytes(TableAB)), Body(CsvBytes(TableAB))>>],
      [filename |-> <<110, 46, 116, 120, 116>>,
       content |-> <<Header, [b64 |-> "badpad", bytes |-> JunkBytes]>>],
      [filename |-> <<110, 46, 116, 120, 116>>,
       content |-> <<Header, [b64 |-> "nonascii", bytes |-> JunkBytes]>>] }

Uploads ==
    { File(97, DotCsv, CsvBytes(TableAB)),
      File(104, DotCsv, CsvBytes(TableHeaderOnly)),
      File(118, DotCsv, CsvBytes(TableValidStr)),
      File(98, DotXlsx, XlsxBytes(TableBC)),
      File(110, <<46, 116, 120, 116>>, CsvBytes(TableAB)),
      File(117, <<46, 67, 83, 86>>, CsvBytes(TableBC)),
      File(120, DotCsv, JunkBytes),
      File(120, DotXlsx, CsvBytes(TableAB)),
      File(120, DotPdf, JunkBytes) }
    \cup {File(100, DotPdf, PdfBytes(k)) : k \in 1..MaxPages}
    \cup BadUploads

DbOutcomes ==
    { [ok |-> FALSE, table |-> EmptyDF],
      [ok |-> TRUE, table |-> [columns |-> <<"c", "a">>, rows |-> <<>>]],
      [ok |-> TRUE, table |-> TableDb] }

(* ----------------------- update_visualizations ------------------------- *)
Init ==
    /\ pc = "start"
    /\ contents \in SeqsUpTo(Uploads, MaxSources)
    /\ db_click \in 0..1
    /\ db_df = EmptyDF
    /\ i = 0
    /\ df = EmptyDF
    /\ all_data = <<>>
    /\ combined_df = EmptyDF
    /\ metrics = NoMetrics
    /\ error = "none"

(* if db_click: db_df = read_database_table(); append it unless empty *)
LoadDb ==
    /\ pc = "start"
    /\ db_click # 0
    /\ \E db \in DbOutcomes :
         /\ db_df' = read_database_table(db)
         /\ all_data' = IF ~IsEmpty(db_df') THEN Append(all_data, db_df') ELSE all_data
    /\ pc' = "files"
    /\ UNCHANGED <<contents, db_click, i, df, combined_df, metrics, error>>

SkipDb ==
    /\ pc = "start"
    /\ db_click = 0
    /\ pc' = "files"
    /\ UNCHANGED <<contents, db_click, db_df, i, df, all_data, combined_df, metrics, error>>

Raise(e) ==
    /\ pc' = "raised"
    /\ error' = e
    /\ UNCHANGED <<contents, db_click, db_df, i, df, all_data, combined_df, metrics>>

Parsed(frame) ==
    /\ df' = frame
    /\ all_data' = Append(all_data, frame)
    /\ i' = i + 1
    /\ UNCHANGED <<pc, contents, db_click, db_df, combined_df, metrics, error>>

InLoop == pc = "files" /\ i < Len(contents)

ProcessCsv ==
    /\ InLoop
    /\ Branch(contents[i + 1].filename) = "csv"
    /\ LET decoded == Decode(contents[i + 1].content)
       IN IF DecodeError(contents[i + 1].content) # "none"
          THEN Raise(DecodeError(contents[i + 1].content))
          ELSE IF ReadCsvRaises(decoded) THEN Raise("ParseError")
          ELSE Parsed(read_csv(decoded))

ProcessXlsx ==
    /\ InLoop
    /\ Branch(contents[i + 1].filename) = "xlsx"
    /\ LET decoded == Decode(contents[i + 1].content)
       IN IF DecodeError(contents[i + 1].content) # "none"
          THEN Raise(DecodeError(contents[i + 1].content))
          ELSE IF ReadExcelRaises(decoded) THEN Raise("ParseError")
          ELSE Parsed(read_excel(decoded))

ProcessPdf ==
    /\ InLoop
    /\ Branch(contents[i + 1].filename) = "pdf"
    /\ LET decoded == Decode(contents[i + 1].content)
       IN IF DecodeError(contents[i + 1].content) # "none"
          THEN Raise(DecodeError(contents[i + 1].content))
          ELSE IF FitzOpenRaises(decoded) THEN Raise("ParseError")
          ELSE Parsed(PdfFrame(extract_text_from_pdf(decoded)))

SkipFile ==
    /\ InLoop
    /\ Branch(contents[i + 1].filename) = "continue"
    /\ IF DecodeError(contents[i + 1].content) # "none"
       THEN Raise(DecodeError(contents[i + 1].content))
       ELSE /\ i' = i + 1
            /\ UNCHANGED <<pc, contents, db_click, db_df, df, all_data, combined_df,
                           metrics, error>>

(* combined_df = ...; metrics = calculate_metrics(combined_df); the charts *)
Finish ==
    /\ pc = "files"
    /\ i = Len(contents)
    /\ combined_df' = Combine(all_data)
    /\ IF CalculateMetricsRaises(combined_df')
       THEN pc' = "raised" /\ error' = "TypeError" /\ metrics' = metrics
       ELSE pc' = "done" /\ error' = error /\ metrics' \in calculate_metrics(combined_df')
    /\ UNCHANGED <<contents, db_click, db_df, i, df, all_data>>

Next ==
    \/ LoadDb
    \/ SkipDb
    \/ ProcessCsv
    \/ ProcessXlsx
    \/ ProcessPdf
    \/ SkipFile
    \/ Finish

Spec == Init /\ [][Next]_vars

(* ------------------- pd.concat on its own inputs ----------------------- *)
InitUnify ==
    /\ pc = "unify"
    /\ all_data \in SeqsUpTo(UnifyTables, MaxTables)
    /\ contents = <<>>
    /\ db_click = 0
    /\ db_df = EmptyDF
    /\ i = 0
    /\ df = EmptyDF
    /\ combined_df = EmptyDF
    /\ metrics = NoMetrics
    /\ error = "none"

Unify ==
    /\ pc = "unify"
    /\ combined_df' = Combine(all_data)
    /\ pc' = "done"
    /\ UNCHANGED <<contents, db_click, db_df, i, df, all_data, metrics, error>>

SpecUnify == InitUnify /\ [][Unify]_vars

(* ----------------- calculate_metrics on its own inputs ----------------- *)
InitScore ==
    /\ pc = "score"
    /\ combined_df \in ScoreTables
    /\ contents = <<>>
    /\ db_click = 0
    /\ db_df = EmptyDF
    /\ i = 0
    /\ df = EmptyDF
    /\ all_data = <<>>
    /\ metrics = NoMetrics
    /\ error = "none"

Score ==
    /\ pc = "score"
    /\ IF CalculateMetricsRaises(combined_df)
       THEN pc' = "raised" /\ error' = "TypeError" /\ metrics' = metrics
       ELSE pc' = "done" /\ error' = error /\ metrics' \in calculate_metrics(combined_df)
    /\ UNCHANGED <<contents, db_click, db_df, i, df, all_data, combined_df>>

SpecScore == InitScore /\ [][Score]_vars

TypeOK ==
    /\ pc \in {"start", "files", "unify", "score", "done", "raised"}
    /\ error \in {"none", "ValueError", "binascii.Error", "ParseError", "TypeError"}
    /\ i \in 0..Len(contents)

(* ============================== claims ================================= *)
Abs(x) == IF x < 0 THEN -x ELSE x

(* the frames passed to pd.concat when the database frame was kept *)
DbPart == IF db_click # 0 /\ ~IsEmpty(db_df) THEN <<db_df>> ELSE <<>>

SupportedSuffix(f) ==
    \E suf \in {DotCsv, DotXlsx, DotPdf} : EndsWith(f.filename, suf)

(* C1: when the parser of a supported kind fails on one source, that       *)
(* source alone is skipped and the run is never aborted by the failure:    *)
(* the callback never ends in a parser exception.                          *)
C1_ParserFailureSkipsSource == ~(pc = "raised" /\ error = "ParseError")

(* C2: a source whose filename suffix matches no parser is omitted without *)
(* an error, and the frames of the other sources are kept in arrival       *)
(* order: after i sources, all_data is (the database frame and) the frames *)
(* of exactly the supported ones among them, in order; the loop is only    *)
(* ever aborted at a source with a supported suffix.                       *)
C2_UnsupportedOmittedInOrder ==
    pc \in {"files", "done", "raised"} =>
        LET sel == SelectSeq(SubSeq(contents, 1, i), SupportedSuffix)
            FrameOf(f) == IF Decode(f.content).fmt = "pdf"
                          THEN PdfFrame(extract_text_from_pdf(Decode(f.content)))
                          ELSE Decode(f.content).table
        IN /\ all_data = DbPart \o [k \in 1..Len(sel) |-> FrameOf(sel[k])]
           /\ ((pc = "raised" /\ i < Len(contents)) => SupportedSuffix(contents[i + 1]))
           /\ ((\A k \in 1..i : ~SupportedSuffix(contents[k])) => all_data = DbPart)

(* C3: whenever the unified table has zero rows, scoring returns the       *)
(* all-zero Metrics record and raises nothing.                             *)
C3_ZeroRowsAllZero ==
    (pc \in {"done", "raised"} /\ error \in {"none", "TypeError"}
        /\ Len(combined_df.rows) = 0) =>
        /\ pc = "done"
        /\ metrics = [completeness |-> 0, consistency |-> 0, overall_integrity |-> 0,
                      valid_records |-> 0, invalid_records |-> 0]

(* header-only frames were uploaded and unified into a table with columns  *)
(* and no rows                                                             *)
C3_Witness ==
    /\ pc = "done"
    /\ Len(all_data) > 0
    /\ Len(combined_df.columns) > 0
    /\ Len(combined_df.rows) = 0

(* C4: for every table of N rows, whatever the "valid" column holds,       *)
(* scoring returns a record with valid_records + invalid_records = N.      *)
C4_ValidPlusInvalidIsN ==
    pc # "score" =>
        /\ pc = "done"
        /\ metrics.valid_records + metrics.invalid_records = Len(combined_df.rows)

(* C5: for N > 0, with a "valid" column valid_records is the number of     *)
(* rows whose "valid" cell is truthy, so 0 <= valid_records <= N and       *)
(* invalid_records >= 0; without the column it is floor(0.9 * N).          *)
C5_ValidRecordsCountsTruthy ==
    (pc = "done" /\ Len(combined_df.rows) > 0) =>
        LET N == Len(combined_df.rows)
            truthy == {r \in 1..N : /\ ~IsNull(combined_df.rows[r]["valid"])
                                    /\ combined_df.rows[r]["valid"] # Num(0)}
        IN IF "valid" \in Range(combined_df.columns)
           THEN /\ metrics.valid_records = Cardinality(truthy)
                /\ metrics.valid_records \in 0..N
                /\ metrics.invalid_records >= 0
           ELSE /\ 10 * metrics.valid_records <= 9 * N
                /\ 10 * (metrics.valid_records + 1) > 9 * N

(* C6: unification yields the union of the input columns in first-seen     *)
(* order and exactly the input rows, table by table and row by row, each   *)
(* with its own values and null in the columns its table lacked.           *)
C6_UnifyUnionAndRows ==
    pc = "done" =>
        LET ts == all_data
            out == combined_df
            Offset(t) == Cardinality({p \in (1..(t - 1)) \X (1..Len(out.rows)) :
                                         p[2] <= Len(ts[p[1]].rows)})
            FirstTable(c) == CHOOSE t \in 1..Len(ts) :
                                /\ c \in Range(ts[t].columns)
                                /\ \A u \in 1..(t - 1) : c \notin Range(ts[u].columns)
            PosIn(c, t) == CHOOSE k \in 1..Len(ts[t].columns) : ts[t].columns[k] = c
        IN /\ Range(out.columns) = UNION {Range(ts[t].columns) : t \in 1..Len(ts)}
           /\ Cardinality(Range(out.columns)) = Len(out.columns)
           /\ \A p, q \in 1..Len(out.columns) :
                p < q =>
                  LET cp == out.columns[p]
                      cq == out.columns[q]
                  IN \/ FirstTable(cp) < FirstTable(cq)
                     \/ /\ FirstTable(cp) = FirstTable(cq)
                        /\ PosIn(cp, FirstTable(cp)) < PosIn(cq, FirstTable(cq))
           /\ Len(out.rows) = Offset(Len(ts) + 1)
           /\ \A t \in 1..Len(ts) : \A r \in 1..Len(ts[t].rows) :
                out.rows[Offset(t) + r] =
                    [c \in Range(out.columns) |->
                        IF c \in Range(ts[t].columns) THEN ts[t].rows[r][c] ELSE Null]

C6_Witness ==
    /\ pc = "done"
    /\ Len(all_data) = 2
    /\ all_data[1].columns = <<"a">>
    /\ all_data[2].columns = <<"b", "a">>
    /\ Len(all_data[1].rows) = 2
    /\ Len(all_data[2].rows) = 2
    /\ all_data[2].rows[1] # all_data[2].rows[2]
    /\ combined_df.columns = <<"a", "b">>
    /\ Len(combined_df.rows) = 4

RECURSIVE JoinPages(_)
JoinPages(pages) ==
    IF pages = <<>> THEN <<>>
    ELSE IF Len(pages) = 1 THEN pages[1]
    ELSE pages[1] \o <<10>> \o JoinPages(Tail(pages))

(* C7: a pdf with pages p1..pk is parsed into one row and one column       *)
(* "Extracted Text" holding p1 \n p2 \n ... \n pk, with no newline after   *)
(* the last page.                                                          *)
C7_PdfTextJoinedByNewline ==
    (pc \in {"files", "done", "raised"} /\ i > 0) =>
        LET src == contents[i]
        IN (EndsWith(src.filename, DotPdf) /\ Decode(src.content).fmt = "pdf") =>
              df = [columns |-> <<"Extracted Text">>,
                    rows |-> <<[c \in {"Extracted Text"} |->
                                  <<"str", JoinPages(Decode(src.content).pages)>>]>>]

(* C8: for N > 0, consistency is 100 - D / N * 100 to 2 decimals, D the    *)
(* number of rows equal to an earlier row (N minus the distinct rows); it  *)
(* lies in [0, 100] and is 100.00 when no row is duplicated.               *)
C8_ConsistencyFromDuplicates ==
    (pc = "done" /\ Len(combined_df.rows) > 0) =>
        LET N == Len(combined_df.rows)
            D == N - Cardinality(Range(combined_df.rows))
            c == metrics.consistency
        IN /\ 2 * Abs(c * N - 10000 * (N - D)) <= N
           /\ c \in 0..10000
           /\ (D = 0 => c = 10000)

(* three rows, the third repeating the first with a null in it: 66.67 *)
C8_Witness ==
    /\ pc = "done"
    /\ Len(combined_df.rows) = 3
    /\ combined_df.rows[1] = combined_df.rows[3]
    /\ combined_df.rows[1] # combined_df.rows[2]
    /\ \E c \in Range(combined_df.columns) : IsNull(combined_df.rows[1][c])
    /\ metrics.consistency = 6667

(* C9: for N > 0, completeness is defined and is the share of non-null     *)
(* cells among all row x column cells, as a percentage to 2 decimals, in   *)
(* [0, 100].                                                               *)
C9_CompletenessIsNonNullShare ==
    (pc = "done" /\ Len(combined_df.rows) > 0) =>
        LET N == Len(combined_df.rows)
            C == Len(combined_df.columns)
            filled == {p \in (1..N) \X (1..C) :
                          combined_df.rows[p[1]][combined_df.columns[p[2]]] # Null}
            c == metrics.completeness
        IN /\ C > 0
           /\ 2 * Abs(c * N * C - 10000 * Cardinality(filled)) <= N * C
           /\ c \in 0..10000

(* rows {a: 1, valid: 2} and {a: 1, valid: null}: 75.00 *)
C9_Witness ==
    /\ pc = "done"
    /\ combined_df.columns = <<"a", "valid">>
    /\ Len(combined_df.rows) = 2
    /\ combined_df.rows[1]["valid"] = Num(2)
    /\ combined_df.rows[2]["valid"] = Null
    /\ combined_df.rows[1]["a"] = Num(1)
    /\ combined_df.rows[2]["a"] = Num(1)
    /\ metrics.completeness = 7500

(* 0.6 * completeness + 0.4 * consistency of the returned (rounded)        *)
(* fields, rounded to 2 decimals, in hundredths                            *)
FromReturnedFields == RoundHalfEven(6 * metrics.completeness + 4 * metrics.consistency, 10)

(* C10 as stated: for N > 0 the returned overall_integrity equals          *)
(* 0.6 * completeness + 0.4 * consistency rounded to 2 decimals, computed  *)
(* from the completeness and consistency returned in the same record.      *)
C10_OverallFromReturnedFields ==
    (pc = "done" /\ Len(combined_df.rows) > 0) =>
        metrics.overall_integrity = FromReturnedFields

(* C10 amended: for N > 0 the returned overall_integrity is                *)
(* 0.6 * completeness + 0.4 * consistency computed from the unrounded      *)
(* completeness and consistency and rounded to 2 decimals once; it is      *)
(* within 0.01 of the value computed from the returned fields.             *)
C10_OverallFromUnrounded ==
    (pc = "done" /\ Len(combined_df.rows) > 0) =>
        LET N == Len(combined_df.rows)
            C == Len(combined_df.columns)
            filled == {p \in (1..N) \X (1..C) :
                          combined_df.rows[p[1]][combined_df.columns[p[2]]] # Null}
            D == N - Cardinality(Range(combined_df.rows))
            o == metrics.overall_integrity
        IN /\ 2 * Abs(o * N * C - 100 * (60 * Cardinality(filled) + 40 * (N - D) * C))
                <= N * C
           /\ Abs(o - FromReturnedFields) <= 1

(* a table on which the two computations differ by 0.01 *)
C10_Witness ==
    /\ pc = "done"
    /\ Len(combined_df.rows) > 0
    /\ metrics.overall_integrity # FromReturnedFields

====
